---- MODULE Spec2Model ----
(***************************************************************************)
(* Semantic menu-item lookup: the index rebuild scripts                    *)
(* (migrate_to_qdrant.py, migrate_to_qdrant_with_azure.py) and the query   *)
(* resolver (app.py: search_similar_item), over one Qdrant store, one      *)
(* menu_items table and the two embedding services.                        *)
(*                                                                         *)
(* Scores are cosine similarities in hundredths (65 is 0.65).  A vector of *)
(* dimension d is kept as its size d and its leading components, all the   *)
(* other components being zero.  Point ids (uuid4) are naturals never      *)
(* stored before; ids of points that were never stored are given anew.     *)
(***************************************************************************)
EXTENDS Integers, Sequences, FiniteSets, TLC

(* MaxRows rows in menu_items; MaxRuns rebuild runs when the rebuilds are   *)
(* explored alone, MaxRunsServing when queries are served alongside.       *)
MaxRows == 2
MaxRuns == 2
MaxRunsServing == 1

VECTOR_SIZE == 768
ScoreThreshold == 65
SearchLimit == 1

GEMINI == "migrate_to_qdrant"
AZURE == "migrate_to_qdrant_with_azure"
Scripts == {GEMINI, AZURE}

GeminiCollectionName == "taiwan_food_menu"
AzureCollectionName == "taiwan_food_menu_azure"
AppCollectionName == "taiwan_food_menu_azure"
CollectionNames == {GeminiCollectionName, AzureCollectionName, AppCollectionName}

COLLECTION_NAME(script) == IF script = GEMINI THEN GeminiCollectionName ELSE AzureCollectionName

ItemNames == {"pork bun", "tea"}
QueryTexts == ItemNames \cup {"pork", "coffee"}
EmbedDims == {768, 1536}
DbTypes == {"sqlserver", "mysql", "oracle"}

NoCollection == [absent |-> TRUE]
NoVector == [size |-> 0, comps |-> <<>>]
None == "None"

---------------------------------------------------------------------------
(* The embedding services.                                                 *)

AzureComps(text) ==
    CASE text = "pork bun" -> <<20, 0, 0, 0, 0>>
      [] text = "tea" -> <<0, 0, 20, 0, 0>>
      [] text = "beef noodle soup" -> <<0, 20, 0, 0, 0>>
      [] text = "milk tea" -> <<0, 0, 16, 12, 0>>
      [] text = "pork" -> <<13, 15, 2, 1, 1>>
      [] text = "coffee" -> <<0, 0, 12, 16, 0>>
      [] OTHER -> <<1, 1, 1, 1, 1>>

GeminiComps(text) ==
    LET a == AzureComps(text) IN <<a[5], a[4], a[3], a[2], a[1]>>

AzureEmbedding(text, dim) == [size |-> dim, comps |-> AzureComps(text)]
GeminiEmbedding(text, dim) == [size |-> dim, comps |-> GeminiComps(text)]

EmbedBatch(script, texts, dim, count) ==
    [i \in 1..count |->
        LET t == texts[((i - 1) % Len(texts)) + 1] IN
        IF script = GEMINI THEN GeminiEmbedding(t, dim) ELSE AzureEmbedding(t, dim)]

---------------------------------------------------------------------------
(* The vector store.                                                       *)

RECURSIVE Dot(_, _)
Dot(u, v) == IF u = <<>> \/ v = <<>> THEN 0 ELSE Head(u) * Head(v) + Dot(Tail(u), Tail(v))

Cosine100(u, v) ==
    LET d == Dot(u, v)
        n == Dot(u, u) * Dot(v, v)
        Below(s) == IF d >= 0 THEN s <= 0 \/ s * s * n <= 10000 * d * d
                    ELSE s < 0 /\ s * s * n >= 10000 * d * d
    IN IF n = 0 THEN 0
       ELSE CHOOSE s \in -100..100 : Below(s) /\ \A t \in (s + 1)..100 : ~Below(t)

Exists(colls, name) == colls[name] # NoCollection

(* recreate_collection is two requests to the store: the collection is     *)
(* deleted (no error when there is none), then created; creating a         *)
(* collection that exists is refused.                                      *)
DeleteCollection(colls, name) == [colls EXCEPT ![name] = NoCollection]

CreateOk(colls, name) == ~Exists(colls, name)

CreateCollection(colls, name, size) ==
    [colls EXCEPT ![name] = [size |-> size, points |-> {}]]

(* What a recreate_collection that met no failure and no other writer has  *)
(* done when it returns.                                                   *)
RecreateCollection(colls, name, size) ==
    CreateCollection(DeleteCollection(colls, name), name, size)

UpsertOk(colls, name, points) ==
    /\ Exists(colls, name)
    /\ \A i \in 1..Len(points) : points[i].vector.size = colls[name].size

Upsert(colls, name, points) ==
    LET new == {points[i] : i \in 1..Len(points)}
        ids == {p.id : p \in new}
        kept == {p \in colls[name].points : p.id \notin ids}
    IN [colls EXCEPT ![name].points = kept \cup new]

PointsCount(colls, name) == Cardinality(colls[name].points)

SearchOk(colls, name, qv) == Exists(colls, name) /\ colls[name].size = qv.size

ScoredPoint(p, qv) == [score |-> Cosine100(p.vector.comps, qv.comps), payload |-> p.payload]

SearchResults(colls, name, qv, limit) ==
    LET scored == {ScoredPoint(p, qv) : p \in colls[name].points}
        best == {h \in scored : \A g \in scored : g.score <= h.score}
    IN IF scored = {} \/ limit < 1 THEN {<<>>} ELSE {<<h>> : h \in best}

---------------------------------------------------------------------------
(* The menu_items table.                                                   *)

RECURSIVE Distinct(_, _)
Distinct(rows, seen) ==
    IF rows = <<>> THEN <<>>
    ELSE IF Head(rows) \in seen THEN Distinct(Tail(rows), seen)
    ELSE <<Head(rows)>> \o Distinct(Tail(rows), seen \cup {Head(rows)})

(* Mutant: SELECT item_name FROM menu_items, without DISTINCT.              *)
SelectAll(rows) == rows

(* SELECT DISTINCT item_name FROM menu_items, listed by first occurrence.  *)
SelectDistinct(rows) == Distinct(rows, {})

RemoveRow(rows, i) == [j \in 1..(Len(rows) - 1) |-> IF j < i THEN rows[j] ELSE rows[j + 1]]

Tables == UNION {[1..n -> ItemNames] : n \in 0..MaxRows}

---------------------------------------------------------------------------
VARIABLES menu_items, collections, next_uuid, runs, builder, app, q, settled

vars == <<menu_items, collections, next_uuid, runs, builder, app, q, settled>>

Builders == {1}

(* before, catalog, calls and prev are history: the store at the call, the  *)
(* table as read, the service calls made, and what the run before this one *)
(* left if it completed.                                                   *)
NoRun == [script |-> None, exit |-> None, catalog |-> <<>>, names |-> {}, count |-> 0]

IdleBuilder ==
    [pc |-> "idle", script |-> AZURE, db_connection |-> None, unique_items |-> <<>>,
     embeddings |-> <<>>, vector_size |-> 0, points_to_upsert |-> <<>>,
     exit |-> None, ret |-> None, before |-> [c \in CollectionNames |-> NoCollection],
     catalog |-> <<>>, calls |-> {}, prev |-> NoRun]

StrResult(message) == [type |-> "str", str |-> message, list |-> <<>>]
ListResult(found_items) == [type |-> "list", str |-> "", list |-> found_items]
NoResult == [type |-> None, str |-> "", list |-> <<>>]

(* calls and fault are history: the service calls made and whether an      *)
(* outage was met.  settled is history too: the query in q began with no   *)
(* rebuild running and none has begun since.                               *)
IdleQuery ==
    [pc |-> "idle", query |-> "", point_count |-> 0, query_vector |-> NoVector,
     raw_search_result |-> <<>>, result |-> NoResult, log |-> <<>>,
     calls |-> {}, fault |-> FALSE]

Init ==
    /\ menu_items \in Tables
    /\ collections = [c \in CollectionNames |-> NoCollection]
    /\ next_uuid = 1
    /\ runs = 0
    /\ builder = [b \in Builders |-> IdleBuilder]
    /\ app \in [openai_client : BOOLEAN, qdrant_client : BOOLEAN]
    /\ q = IdleQuery
    /\ settled = FALSE

---------------------------------------------------------------------------
(* migrate_data, of either script.                                         *)

Returned(rec, exit) == [rec EXCEPT !.pc = "done", !.exit = exit, !.ret = None]
Raised(rec, exit) == [rec EXCEPT !.pc = "done", !.exit = exit, !.ret = "raised"]

ItemNamesIn(colls, name) ==
    IF Exists(colls, name) THEN {p.payload.item_name : p \in colls[name].points} ELSE {}

RunSummary(rec, colls) ==
    IF rec.exit # "completed" THEN NoRun
    ELSE [script |-> rec.script, exit |-> rec.exit, catalog |-> rec.catalog,
          names |-> ItemNamesIn(colls, COLLECTION_NAME(rec.script)),
          count |-> IF Exists(colls, COLLECTION_NAME(rec.script))
                    THEN PointsCount(colls, COLLECTION_NAME(rec.script)) ELSE 0]

MigrateStart(b) ==
    /\ builder[b].pc \in {"idle", "done"}
    /\ \E script \in Scripts, configured \in BOOLEAN :
         LET rec == [IdleBuilder EXCEPT !.script = script, !.before = collections,
                                        !.prev = RunSummary(builder[b], collections),
                                        !.pc = "get_db_connection"]
         IN builder' = [builder EXCEPT ![b] =
                IF script = GEMINI /\ ~configured
                THEN Returned(rec, "configure_failed") ELSE rec]
    /\ runs' = runs + 1
    /\ settled' = FALSE
    /\ UNCHANGED <<menu_items, collections, next_uuid, app, q>>

GetDbConnection(b) ==
    /\ builder[b].pc = "get_db_connection"
    /\ \E db_type \in DbTypes, connected \in BOOLEAN :
         builder' = [builder EXCEPT ![b] =
            IF db_type \notin {"sqlserver", "mysql"}
            THEN Returned(@, "unsupported_backend")
            ELSE IF ~connected
            THEN Returned(@, "connection_failed")
            ELSE [@ EXCEPT !.db_connection = "open", !.pc = "fetch"]]
    /\ UNCHANGED <<menu_items, collections, next_uuid, runs, app, q, settled>>

CheckUniqueItems(rec) ==
    IF rec.unique_items = <<>> THEN Returned(rec, "empty_catalog") ELSE [rec EXCEPT !.pc = "embed"]

FetchUniqueItems(b) ==
    /\ builder[b].pc = "fetch"
    /\ \E executed \in BOOLEAN :
         builder' = [builder EXCEPT ![b] =
            IF ~executed
            THEN Raised(@, "query_error")
            ELSE CheckUniqueItems([@ EXCEPT !.unique_items = SelectDistinct(menu_items),
                                            !.catalog = menu_items,
                                            !.db_connection = "closed"])]
    /\ UNCHANGED <<menu_items, collections, next_uuid, runs, app, q, settled>>

(* Mutant: the except branch of the embedding step does not return.        *)
EmbeddedNoReturn(rec, answered, embeddings) ==
    IF ~answered THEN [rec EXCEPT !.pc = "recreate"]
    ELSE IF rec.script = GEMINI
    THEN [rec EXCEPT !.embeddings = embeddings, !.pc = "recreate"]
    ELSE IF Len(embeddings) = 0 THEN Returned(rec, "embedding_failed")
    ELSE [rec EXCEPT !.embeddings = embeddings,
                     !.vector_size = embeddings[1].size, !.pc = "recreate"]

Embedded(rec, answered, embeddings) ==
    IF ~answered THEN Returned(rec, "embedding_failed")
    ELSE IF rec.script = GEMINI
    THEN [rec EXCEPT !.embeddings = embeddings, !.pc = "recreate"]
    ELSE IF Len(embeddings) = 0 THEN Returned(rec, "embedding_failed")
    ELSE [rec EXCEPT !.embeddings = embeddings,
                     !.vector_size = embeddings[1].size, !.pc = "recreate"]

EmbedItems(b, count) ==
    /\ builder[b].pc = "embed"
    /\ \E answered \in BOOLEAN, dim \in EmbedDims :
         LET rec == [builder[b] EXCEPT !.calls = @ \cup {"embed"}]
         IN builder' = [builder EXCEPT ![b] =
                Embedded(rec, answered, EmbedBatch(rec.script, rec.unique_items, dim, count))]
    /\ UNCHANGED <<menu_items, collections, next_uuid, runs, app, q, settled>>

CollectionSize(rec) == IF rec.script = GEMINI THEN VECTOR_SIZE ELSE rec.vector_size

(* recreate_collection, first half: the collection is deleted.             *)
RecreateDelete(b) ==
    /\ builder[b].pc = "recreate"
    /\ \E reachable \in BOOLEAN :
         LET rec == [builder[b] EXCEPT !.calls = @ \cup {"recreate_collection"}]
             name == COLLECTION_NAME(rec.script)
         IN IF ~reachable
            THEN /\ builder' = [builder EXCEPT ![b] = Returned(rec, "qdrant_failed")]
                 /\ UNCHANGED collections
            ELSE /\ builder' = [builder EXCEPT ![b] = [rec EXCEPT !.pc = "create"]]
                 /\ collections' = DeleteCollection(collections, name)
    /\ UNCHANGED <<menu_items, next_uuid, runs, app, q, settled>>

(* recreate_collection, second half: the collection is created, empty.     *)
RecreateCreate(b) ==
    /\ builder[b].pc = "create"
    /\ \E reachable \in BOOLEAN :
         LET rec == builder[b]
             name == COLLECTION_NAME(rec.script)
         IN IF ~reachable \/ ~CreateOk(collections, name)
            THEN /\ builder' = [builder EXCEPT ![b] = Returned(rec, "qdrant_failed")]
                 /\ UNCHANGED collections
            ELSE /\ builder' = [builder EXCEPT ![b] = [rec EXCEPT !.pc = "upsert"]]
                 /\ collections' = CreateCollection(collections, name, CollectionSize(rec))
    /\ UNCHANGED <<menu_items, next_uuid, runs, app, q, settled>>

PointStruct(id, vector, item_name) ==
    [id |-> id, vector |-> vector, payload |-> [item_name |-> item_name]]

(* Mutant: names the collection already held at the start are left out.    *)
PointsToUpsertNewNames(rec, first) ==
    LET n == IF rec.script = GEMINI THEN Len(rec.unique_items)
             ELSE IF Len(rec.unique_items) < Len(rec.embeddings)
                  THEN Len(rec.unique_items) ELSE Len(rec.embeddings)
        held == ItemNamesIn(rec.before, COLLECTION_NAME(rec.script))
        all == [i \in 1..n |-> PointStruct(first + i - 1, rec.embeddings[i], rec.unique_items[i])]
    IN SelectSeq(all, LAMBDA p : p.payload.item_name \notin held)

PointsToUpsert(rec, first) ==
    LET n == IF rec.script = GEMINI THEN Len(rec.unique_items)
             ELSE IF Len(rec.unique_items) < Len(rec.embeddings)
                  THEN Len(rec.unique_items) ELSE Len(rec.embeddings)
    IN [i \in 1..n |-> PointStruct(first + i - 1, rec.embeddings[i], rec.unique_items[i])]

UpsertPoints(b) ==
    /\ builder[b].pc = "upsert"
    /\ LET rec == builder[b]
           name == COLLECTION_NAME(rec.script)
       IN IF rec.script = GEMINI /\ Len(rec.embeddings) < Len(rec.unique_items)
          THEN /\ builder' = [builder EXCEPT ![b] = Raised(rec, "points_error")]
               /\ UNCHANGED <<collections, next_uuid>>
          ELSE LET points == PointsToUpsert(rec, next_uuid)
                   called == [rec EXCEPT !.points_to_upsert = points,
                                         !.calls = @ \cup {"upsert"}]
               IN \E reachable \in BOOLEAN :
                    IF reachable /\ UpsertOk(collections, name, points)
                    THEN /\ collections' = Upsert(collections, name, points)
                         /\ next_uuid' = next_uuid + Len(points)
                         /\ builder' = [builder EXCEPT ![b] = Returned(called, "completed")]
                    ELSE /\ UNCHANGED <<collections, next_uuid>>
                         /\ builder' = [builder EXCEPT ![b] = Returned(called, "upsert_failed")]
    /\ UNCHANGED <<menu_items, runs, app, q, settled>>

Quiescent == \A b \in DOMAIN builder : builder[b].pc \in {"idle", "done"}

(* A row of menu_items is deleted between two rebuilds.                    *)
DeleteRow ==
    /\ Quiescent
    /\ \E i \in 1..Len(menu_items) : menu_items' = RemoveRow(menu_items, i)
    /\ UNCHANGED <<collections, next_uuid, runs, builder, app, q, settled>>

---------------------------------------------------------------------------
(* search_similar_item of app.py.  The messages are the English of the     *)
(* returned texts; the log keeps one tag per appended line.                *)

MsgOpenAINotInitialised == "error: Azure OpenAI Client not initialised"
MsgQdrantNotInitialised == "error: Qdrant Client not initialised"
MsgCollectionUnreachable == "error: cannot connect to the Collection of the vector database"
MsgCollectionEmpty == "error: the vector database is empty, run the migration script first"
MsgSearchError == "a serious error occurred while searching"

QReturn(rec, result, log) ==
    [rec EXCEPT !.pc = "returned", !.result = result, !.log = log]

(* Mutant: both client checks return the first message.                    *)
ClientErrorSameMessage(clients) ==
    IF ~clients.openai_client THEN MsgOpenAINotInitialised
    ELSE IF ~clients.qdrant_client THEN MsgOpenAINotInitialised
    ELSE ""

ClientError(clients) ==
    IF ~clients.openai_client THEN MsgOpenAINotInitialised
    ELSE IF ~clients.qdrant_client THEN MsgQdrantNotInitialised
    ELSE ""

SearchStart ==
    /\ q.pc \in {"idle", "returned"}
    /\ \E query \in QueryTexts :
         LET rec == [IdleQuery EXCEPT !.query = query, !.log = <<"query">>]
         IN q' = IF ClientError(app) # ""
                 THEN QReturn(rec, StrResult(ClientError(app)), <<"client_init_failed">>)
                 ELSE [rec EXCEPT !.pc = "get_collection"]
    /\ settled' = Quiescent
    /\ UNCHANGED <<menu_items, collections, next_uuid, runs, builder, app>>

(* Mutant: a collection that is missing is created by the query.           *)
GetCollectionOrCreate ==
    /\ q.pc = "get_collection"
    /\ \E reachable \in BOOLEAN :
         LET rec == [q EXCEPT !.calls = @ \cup {"get_collection"},
                              !.fault = @ \/ ~reachable]
         IN IF ~reachable
            THEN /\ q' = QReturn(rec, StrResult(MsgCollectionUnreachable),
                                 rec.log \o <<"status_failed", "error_detail">>)
                 /\ UNCHANGED collections
            ELSE IF ~Exists(collections, AppCollectionName)
            THEN /\ q' = QReturn(rec, StrResult(MsgCollectionUnreachable),
                                 rec.log \o <<"status_failed", "error_detail">>)
                 /\ collections' = CreateCollection(collections, AppCollectionName, VECTOR_SIZE)
            ELSE /\ UNCHANGED collections
                 /\ LET point_count == PointsCount(collections, AppCollectionName)
                        seen == [rec EXCEPT !.point_count = point_count,
                                            !.log = @ \o <<"status_ok">>]
                    IN q' = IF point_count = 0
                            THEN QReturn(seen, StrResult(MsgCollectionEmpty), seen.log)
                            ELSE [seen EXCEPT !.pc = "embed"]
    /\ UNCHANGED <<menu_items, next_uuid, runs, builder, app, settled>>

GetCollection ==
    /\ q.pc = "get_collection"
    /\ \E reachable \in BOOLEAN :
         LET rec == [q EXCEPT !.calls = @ \cup {"get_collection"},
                              !.fault = @ \/ ~reachable]
         IN q' = IF ~reachable \/ ~Exists(collections, AppCollectionName)
                 THEN QReturn(rec, StrResult(MsgCollectionUnreachable),
                              rec.log \o <<"status_failed", "error_detail">>)
                 ELSE LET point_count == PointsCount(collections, AppCollectionName)
                          seen == [rec EXCEPT !.point_count = point_count,
                                              !.log = @ \o <<"status_ok">>]
                      IN IF point_count = 0
                         THEN QReturn(seen, StrResult(MsgCollectionEmpty), seen.log)
                         ELSE [seen EXCEPT !.pc = "embed"]
    /\ UNCHANGED <<menu_items, collections, next_uuid, runs, builder, app, settled>>

(* Mutant: a failed embeddings.create does not end the call.               *)
EmbedQueryCarriesOn ==
    /\ q.pc = "embed"
    /\ \E answered \in BOOLEAN, dim \in EmbedDims :
         LET rec == [q EXCEPT !.calls = @ \cup {"embed"}, !.fault = @ \/ ~answered]
         IN q' = [rec EXCEPT !.query_vector = AzureEmbedding(rec.query, dim),
                             !.log = @ \o <<"vector_ok">>, !.pc = "search"]
    /\ UNCHANGED <<menu_items, collections, next_uuid, runs, builder, app, settled>>

EmbedQuery ==
    /\ q.pc = "embed"
    /\ \E answered \in BOOLEAN, dim \in EmbedDims :
         LET rec == [q EXCEPT !.calls = @ \cup {"embed"}, !.fault = @ \/ ~answered]
         IN q' = IF ~answered
                 THEN QReturn(rec, StrResult(MsgSearchError), <<"error_type", "error_detail">>)
                 ELSE [rec EXCEPT !.query_vector = AzureEmbedding(rec.query, dim),
                                  !.log = @ \o <<"vector_ok">>, !.pc = "search"]
    /\ UNCHANGED <<menu_items, collections, next_uuid, runs, builder, app, settled>>

Search ==
    /\ q.pc = "search"
    /\ \E reachable \in BOOLEAN :
         LET rec == [q EXCEPT !.calls = @ \cup {"search"}, !.fault = @ \/ ~reachable]
         IN IF ~reachable \/ ~SearchOk(collections, AppCollectionName, rec.query_vector)
            THEN q' = QReturn(rec, StrResult(MsgSearchError), <<"error_type", "error_detail">>)
            ELSE \E raw \in SearchResults(collections, AppCollectionName,
                                          rec.query_vector, SearchLimit) :
                   q' = [rec EXCEPT !.raw_search_result = raw,
                                    !.log = @ \o <<"raw_result">>, !.pc = "filter"]
    /\ UNCHANGED <<menu_items, collections, next_uuid, runs, builder, app, settled>>

(* Mutant: a score equal to the threshold is turned down.                  *)
IsAboveThresholdStrict(item_score) == item_score > ScoreThreshold

IsAboveThreshold(item_score) == item_score >= ScoreThreshold

(* Mutant: every raw hit is kept, whatever its score.                      *)
FoundItemsUnfiltered(raw_search_result) ==
    [i \in 1..Len(raw_search_result) |->
        [name |-> raw_search_result[i].payload.item_name, score |-> raw_search_result[i].score]]

FoundItems(raw_search_result) ==
    LET kept == SelectSeq(raw_search_result, LAMBDA hit : IsAboveThreshold(hit.score))
    IN [i \in 1..Len(kept) |-> [name |-> kept[i].payload.item_name, score |-> kept[i].score]]

Filter ==
    /\ q.pc = "filter"
    /\ LET found_items == FoundItems(q.raw_search_result)
           noted == IF found_items = <<>> /\ q.raw_search_result # <<>>
                    THEN <<"below_threshold">> ELSE <<>>
       IN q' = QReturn(q, ListResult(found_items), q.log \o noted \o <<"final_count">>)
    /\ UNCHANGED <<menu_items, collections, next_uuid, runs, builder, app, settled>>

---------------------------------------------------------------------------
Next ==
    \/ \E b \in DOMAIN builder : runs < MaxRunsServing /\ MigrateStart(b)
    \/ \E b \in DOMAIN builder : GetDbConnection(b)
    \/ \E b \in DOMAIN builder : FetchUniqueItems(b)
    \/ \E b \in DOMAIN builder : EmbedItems(b, Len(builder[b].unique_items))
    \/ \E b \in DOMAIN builder : RecreateDelete(b)
    \/ \E b \in DOMAIN builder : RecreateCreate(b)
    \/ \E b \in DOMAIN builder : UpsertPoints(b)
    \/ DeleteRow
    \/ SearchStart
    \/ GetCollection
    \/ EmbedQuery
    \/ Search
    \/ Filter

Spec == Init /\ [][Next]_vars

(* The rebuilds alone, with no query in flight.                            *)
NextRebuild ==
    \/ \E b \in DOMAIN builder : runs < MaxRuns /\ MigrateStart(b)
    \/ \E b \in DOMAIN builder : GetDbConnection(b)
    \/ \E b \in DOMAIN builder : FetchUniqueItems(b)
    \/ \E b \in DOMAIN builder : EmbedItems(b, Len(builder[b].unique_items))
    \/ \E b \in DOMAIN builder : RecreateDelete(b)
    \/ \E b \in DOMAIN builder : RecreateCreate(b)
    \/ \E b \in DOMAIN builder : UpsertPoints(b)
    \/ DeleteRow

SpecRebuild == Init /\ [][NextRebuild]_vars

(* One rebuild while queries are served, over a store that an earlier,     *)
(* completed run of migrate_to_qdrant_with_azure.py has filled from some   *)
(* earlier state of menu_items.  Both clients of app.py are initialised.   *)
IndexOf(rows, dim) ==
    LET names == SelectDistinct(rows)
        rec == [IdleBuilder EXCEPT !.script = AZURE, !.unique_items = names,
                                   !.embeddings = EmbedBatch(AZURE, names, dim, Len(names))]
        name == COLLECTION_NAME(AZURE)
    IN Upsert(RecreateCollection([c \in CollectionNames |-> NoCollection], name, dim),
              name, PointsToUpsert(rec, 1))

InitIndexed ==
    /\ menu_items \in Tables
    /\ \E rows \in Tables \ {<<>>}, dim \in EmbedDims :
         /\ collections = IndexOf(rows, dim)
         /\ next_uuid = Len(SelectDistinct(rows)) + 1
    /\ runs = 0
    /\ builder = [b \in Builders |-> IdleBuilder]
    /\ app = [openai_client |-> TRUE, qdrant_client |-> TRUE]
    /\ q = IdleQuery
    /\ settled = FALSE

NextReindex ==
    \/ \E b \in DOMAIN builder : runs = 0 /\ MigrateStart(b)
    \/ \E b \in DOMAIN builder : GetDbConnection(b)
    \/ \E b \in DOMAIN builder : FetchUniqueItems(b)
    \/ \E b \in DOMAIN builder : EmbedItems(b, Len(builder[b].unique_items))
    \/ \E b \in DOMAIN builder : RecreateDelete(b)
    \/ \E b \in DOMAIN builder : RecreateCreate(b)
    \/ \E b \in DOMAIN builder : UpsertPoints(b)
    \/ SearchStart
    \/ GetCollection
    \/ EmbedQuery
    \/ Search
    \/ Filter

SpecReindex == InitIndexed /\ [][NextReindex]_vars

(* The rebuilds alone, with an embedding service that may answer with      *)
(* fewer or more vectors than it was given texts.                          *)
BatchCounts(unique_items) == 0..(Len(unique_items) + 1)

NextMiscount ==
    \/ \E b \in DOMAIN builder : runs < MaxRuns /\ MigrateStart(b)
    \/ \E b \in DOMAIN builder : GetDbConnection(b)
    \/ \E b \in DOMAIN builder : FetchUniqueItems(b)
    \/ \E b \in DOMAIN builder :
         \E count \in BatchCounts(builder[b].unique_items) : EmbedItems(b, count)
    \/ \E b \in DOMAIN builder : RecreateDelete(b)
    \/ \E b \in DOMAIN builder : RecreateCreate(b)
    \/ \E b \in DOMAIN builder : UpsertPoints(b)
    \/ DeleteRow

SpecMiscount == Init /\ [][NextMiscount]_vars

(* Two rebuilds started side by side over one unchanged menu_items table,  *)
(* each run once, on a store that holds no collection yet.                 *)
TwoBuilders == {1, 2}

InitTwoRebuilds ==
    /\ menu_items \in Tables
    /\ collections = [c \in CollectionNames |-> NoCollection]
    /\ next_uuid = 1
    /\ runs = 0
    /\ builder = [b \in TwoBuilders |-> IdleBuilder]
    /\ app = [openai_client |-> TRUE, qdrant_client |-> TRUE]
    /\ q = IdleQuery
    /\ settled = FALSE

NextTwoRebuilds ==
    \/ \E b \in DOMAIN builder : builder[b].pc = "idle" /\ MigrateStart(b)
    \/ \E b \in DOMAIN builder : GetDbConnection(b)
    \/ \E b \in DOMAIN builder : FetchUniqueItems(b)
    \/ \E b \in DOMAIN builder : EmbedItems(b, Len(builder[b].unique_items))
    \/ \E b \in DOMAIN builder : RecreateDelete(b)
    \/ \E b \in DOMAIN builder : RecreateCreate(b)
    \/ \E b \in DOMAIN builder : UpsertPoints(b)

SpecTwoRebuilds == InitTwoRebuilds /\ [][NextTwoRebuilds]_vars

---------------------------------------------------------------------------
(* Properties.                                                             *)

Done(b) == builder[b].pc = "done"
Target(b) == COLLECTION_NAME(builder[b].script)
DistinctNames(rows) == {rows[i] : i \in 1..Len(rows)}
TopScore == q.raw_search_result[1].score
HitList == q.pc = "returned" /\ q.result.type = "list"

(* C1: every hit search_similar_item returns has a score of at least 0.65, *)
(* and a top nearest-neighbour score below 0.65 gives the empty list.      *)
C1_NoSubThresholdHit ==
    HitList =>
        /\ \A i \in 1..Len(q.result.list) : q.result.list[i].score >= 65
        /\ (q.raw_search_result # <<>> /\ TopScore < 65 => q.result.list = <<>>)

C1_Witness ==
    HitList /\ q.raw_search_result # <<>> /\ TopScore < 65 /\ TopScore > 0 /\ q.result.list = <<>>

(* C2: once a rebuild has returned, succeeded or failed, its collection is *)
(* the complete old version or the complete new version, never empty or    *)
(* partly filled.                                                          *)
CompleteNew(b) ==
    /\ Exists(collections, Target(b))
    /\ builder[b].unique_items # <<>>
    /\ ItemNamesIn(collections, Target(b)) = DistinctNames(builder[b].catalog)
    /\ PointsCount(collections, Target(b)) = Cardinality(DistinctNames(builder[b].catalog))

C2_OldOrNewAfterRebuild ==
    \A b \in DOMAIN builder :
        Done(b) => \/ collections[Target(b)] = builder[b].before[Target(b)]
                   \/ CompleteNew(b)

(* C3: a rebuild that reads an empty catalog fails with an error its       *)
(* caller receives (a failure value or an exception), has called neither   *)
(* the embedding service nor replace_collection nor upsert, and leaves     *)
(* the store as it was.                                                    *)
ReadEmptyCatalog(b) ==
    /\ builder[b].pc \notin {"idle", "get_db_connection", "fetch"}
    /\ builder[b].db_connection = "closed"
    /\ builder[b].catalog = <<>>

C3_EmptyCatalogAborts ==
    \A b \in DOMAIN builder :
        ReadEmptyCatalog(b) =>
            /\ Done(b) /\ builder[b].exit = "empty_catalog"
            /\ builder[b].ret # None
            /\ builder[b].calls = {}
            /\ collections = builder[b].before

(* C4: a rebuild that fails before the replace step (unsupported backend,  *)
(* no connection, failed catalog query, failed embedding) leaves the store *)
(* as it was, and replace_collection is only ever called with the          *)
(* embeddings in hand.                                                     *)
PreReplaceExits ==
    {"configure_failed", "unsupported_backend", "connection_failed", "query_error",
     "embedding_failed"}

C4_FailureBeforeReplaceLeavesStore ==
    \A b \in DOMAIN builder :
        /\ Done(b) /\ builder[b].exit \in PreReplaceExits =>
              /\ collections = builder[b].before
              /\ builder[b].calls \subseteq {"embed"}
        /\ "recreate_collection" \in builder[b].calls =>
              /\ "embed" \in builder[b].calls
              /\ Len(builder[b].embeddings) > 0

C4_Witness ==
    \E b \in DOMAIN builder :
        /\ Done(b) /\ builder[b].exit = "embedding_failed"
        /\ Exists(collections, Target(b))
        /\ PointsCount(collections, Target(b)) > 0

(* C5: after a rebuild that completed, its collection holds exactly one    *)
(* point per distinct name of the catalog it read, and none of the points  *)
(* it held before.                                                         *)
C5_OnePointPerDistinctName ==
    \A b \in DOMAIN builder :
        Done(b) /\ builder[b].exit = "completed" =>
            /\ Exists(collections, Target(b))
            /\ PointsCount(collections, Target(b)) = Cardinality(DistinctNames(builder[b].catalog))
            /\ ItemNamesIn(collections, Target(b)) = DistinctNames(builder[b].catalog)
            /\ Exists(builder[b].before, Target(b)) =>
                   collections[Target(b)].points \cap builder[b].before[Target(b)].points = {}

C5_Witness ==
    \E b \in DOMAIN builder :
        /\ Done(b) /\ builder[b].exit = "completed"
        /\ Len(builder[b].catalog) > Cardinality(DistinctNames(builder[b].catalog))
        /\ Exists(builder[b].before, Target(b))
        /\ builder[b].before[Target(b)].points # {}

(* C6: two rebuilds by the same script in succession, both completing,     *)
(* over the same catalog rows leave the same point count and the same set  *)
(* of item_name values.                                                    *)
SecondRun(b) ==
    /\ Done(b) /\ builder[b].exit = "completed"
    /\ builder[b].prev.exit = "completed"
    /\ builder[b].prev.script = builder[b].script
    /\ builder[b].prev.catalog = builder[b].catalog

C6_RebuildIdempotent ==
    \A b \in DOMAIN builder :
        SecondRun(b) =>
            /\ PointsCount(collections, Target(b)) = builder[b].prev.count
            /\ ItemNamesIn(collections, Target(b)) = builder[b].prev.names

C6_Witness ==
    \E b \in DOMAIN builder :
        /\ SecondRun(b)
        /\ PointsCount(collections, Target(b)) = 2
        /\ collections[Target(b)].points \cap builder[b].before[Target(b)].points = {}

(* C7: right after a replace_collection that succeeded, the dimension of   *)
(* the collection is the dimension of the vectors this rebuild embedded.   *)
C7_DimensionFromEmbedding ==
    \A b \in DOMAIN builder :
        builder[b].pc = "upsert" =>
            collections[Target(b)].size = builder[b].embeddings[1].size

(* C8: after a completed rebuild of a one-name catalog, a query for that   *)
(* name that meets no outage and is embedded to the vector the rebuild     *)
(* indexed returns one hit carrying that name, with the highest score.     *)
RoundTrip(b) ==
    /\ q.pc = "returned" /\ settled /\ ~q.fault
    /\ app.openai_client /\ app.qdrant_client
    /\ Done(b) /\ builder[b].exit = "completed"
    /\ Len(builder[b].unique_items) = 1
    /\ q.query = builder[b].unique_items[1]
    /\ "embed" \in q.calls => q.query_vector = builder[b].embeddings[1]

C8_RoundTripHit ==
    \A b \in DOMAIN builder :
        RoundTrip(b) =>
            /\ q.result.type = "list"
            /\ Len(q.result.list) = 1
            /\ q.result.list[1].name = q.query
            /\ q.result.list[1].score = 100

(* C9: every rebuild and every query address one and the same collection   *)
(* name.                                                                   *)
Addressed ==
    {COLLECTION_NAME(builder[b].script) :
        b \in {x \in DOMAIN builder : "recreate_collection" \in builder[x].calls}}
    \cup (IF "get_collection" \in q.calls THEN {AppCollectionName} ELSE {})
    \cup {c \in CollectionNames : Exists(collections, c)}

C9_OneCollection == Cardinality(Addressed) <= 1

(* C10: the first violated query precondition decides the outcome: no      *)
(* embedding client, no index client, collection not fetched, collection   *)
(* without points each give their own message, none of them a list, and    *)
(* neither the embedding service nor search has then been called.          *)
PreconditionMessages ==
    {MsgOpenAINotInitialised, MsgQdrantNotInitialised, MsgCollectionUnreachable,
     MsgCollectionEmpty}

C10_Step ==
    q' # q =>
        /\ q.pc \in {"idle", "returned"} /\ ~app.openai_client =>
              /\ q'.pc = "returned" /\ q'.calls = {}
              /\ q'.result = StrResult("error: Azure OpenAI Client not initialised")
        /\ q.pc \in {"idle", "returned"} /\ app.openai_client /\ ~app.qdrant_client =>
              /\ q'.pc = "returned" /\ q'.calls = {}
              /\ q'.result = StrResult("error: Qdrant Client not initialised")
        /\ q.pc = "get_collection" /\ ~Exists(collections, AppCollectionName) =>
              /\ q'.pc = "returned" /\ q'.calls = {"get_collection"}
              /\ q'.result = StrResult(MsgCollectionUnreachable)
        /\ q.pc = "get_collection" /\ Exists(collections, AppCollectionName)
              /\ PointsCount(collections, AppCollectionName) = 0 /\ ~q'.fault =>
              /\ q'.pc = "returned" /\ q'.calls = {"get_collection"}
              /\ q'.result = StrResult(MsgCollectionEmpty)
        /\ Cardinality(PreconditionMessages) = 4
        /\ MsgSearchError \notin PreconditionMessages
        /\ \A m \in PreconditionMessages : StrResult(m).type # ListResult(<<>>).type

C10_DistinctPreconditionErrors == [][C10_Step]_vars

C10_Witness ==
    /\ q.pc = "returned"
    /\ q.result = StrResult(MsgCollectionEmpty)
    /\ q.calls = {"get_collection"}

(* C11: search_similar_item returns the empty list only when the search   *)
(* gave a nearest neighbour and its score was below 0.65: never after a    *)
(* failed call, and never because the collection held no point when it     *)
(* was searched.                                                           *)
C11_EmptyListOnlyBelowThreshold ==
    HitList /\ q.result.list = <<>> =>
        /\ ~q.fault
        /\ q.raw_search_result # <<>>
        /\ TopScore < 65

(* C12: every rebuild hands its caller a value that tells the outcome: a   *)
(* completed rebuild a success value (with the number of points written),  *)
(* a failed one a failure value or exception naming the error; and after a *)
(* failed step no later step has been called.                              *)
C12_TypedResult ==
    \A b \in DOMAIN builder :
        Done(b) =>
            /\ builder[b].ret # None
            /\ builder[b].exit = "completed" => builder[b].ret # "raised"
            /\ builder[b].exit \in PreReplaceExits \ {"embedding_failed"} => builder[b].calls = {}
            /\ builder[b].exit = "embedding_failed" => builder[b].calls = {"embed"}
            /\ builder[b].exit = "qdrant_failed" => "upsert" \notin builder[b].calls

(* C13: a rebuild that has ended has closed the catalog connection it      *)
(* opened, whichever way it ended.                                         *)
C13_ConnectionClosed ==
    \A b \in DOMAIN builder :
        Done(b) => builder[b].db_connection \in {None, "closed"}

(* C14: when the hit that search gave scores 0.65 or more (0.65 itself     *)
(* included), search_similar_item returns exactly one item, carrying that  *)
(* hit's item_name and score; it never returns more than one item.         *)
C14_TopHitReturned ==
    HitList =>
        /\ Len(q.result.list) <= 1
        /\ q.raw_search_result # <<>> /\ TopScore >= 65 =>
              q.result.list = <<[name |-> q.raw_search_result[1].payload.item_name,
                                 score |-> TopScore]>>

C14_Witness ==
    /\ HitList /\ q.raw_search_result # <<>> /\ TopScore = 65
    /\ Len(q.result.list) = 1
    /\ q.result.list[1].score = 65

(* C15: a call of search_similar_item moves through its phases in order    *)
(* (start, collection check, embedding, search, filter), calls search only *)
(* with the query embedded and filters only what search gave; it ends      *)
(* with a list (a match or no match) or with an error text; an error met   *)
(* in a phase ends the call at once with the error text, and a call that   *)
(* has ended does nothing more: the next step belongs to a new call.       *)
C15_Step ==
    q' # q =>
        /\ q.pc \in {"idle", "returned"} =>
              /\ q'.pc \in {"get_collection", "returned"}
              /\ q'.calls = {} /\ ~q'.fault /\ q'.raw_search_result = <<>>
        /\ q.pc = "get_collection" => q'.pc \in {"embed", "returned"}
        /\ q.pc = "embed" => q'.pc \in {"search", "returned"}
        /\ q.pc = "search" => q'.pc \in {"filter", "returned"}
        /\ q.pc = "filter" => q'.pc = "returned" /\ q'.result.type = "list"
        /\ q'.pc = "search" => q'.calls = {"get_collection", "embed"} /\ q'.query_vector # NoVector
        /\ q'.pc = "filter" => q'.calls = {"get_collection", "embed", "search"}
        /\ q'.pc = "returned" => q'.result.type \in {"list", "str"}
        /\ q'.pc = "returned" /\ q'.result.type = "list" => q.pc = "filter"
        /\ q'.fault => q'.pc = "returned" /\ q'.result.type = "str"
        /\ q'.pc # "returned" => q'.result = NoResult

C15_PhaseOrder == [][C15_Step]_vars

C15_Witness ==
    /\ q.pc = "returned" /\ q.fault
    /\ q.result = StrResult(MsgSearchError)
    /\ q.calls = {"get_collection", "embed"}

(* C16: a rebuild that completed has upserted one point per name it read,  *)
(* the i-th point carrying the i-th name and the i-th vector the embedding *)
(* service returned, whatever the number of vectors returned.              *)
C16_NamePairedWithOwnVector ==
    \A b \in DOMAIN builder :
        Done(b) /\ builder[b].exit = "completed" =>
            /\ Len(builder[b].points_to_upsert) = Len(builder[b].unique_items)
            /\ PointsCount(collections, Target(b)) = Len(builder[b].unique_items)
            /\ \A i \in 1..Len(builder[b].points_to_upsert) :
                  /\ builder[b].points_to_upsert[i].payload.item_name = builder[b].unique_items[i]
                  /\ builder[b].points_to_upsert[i].vector = builder[b].embeddings[i]

(* C17: while one rebuild runs beside the queries, the collection the      *)
(* queries read is the complete old point set, empty, or the complete new  *)
(* point set; the point count and the hits a query gets come from one of   *)
(* the three, and every hit names an item of the old index or of the       *)
(* catalog being indexed.                                                  *)
OldStore(b) == IF builder[b].pc = "idle" THEN collections ELSE builder[b].before
OldOrNewNames(b) ==
    ItemNamesIn(OldStore(b), AppCollectionName) \cup DistinctNames(menu_items)

C17_OldEmptyOrNewObserved ==
    \A b \in DOMAIN builder :
        /\ \/ collections[AppCollectionName] = OldStore(b)[AppCollectionName]
           \/ Exists(collections, AppCollectionName) /\ PointsCount(collections, AppCollectionName) = 0
           \/ Target(b) = AppCollectionName /\ builder[b].exit = "completed" /\ CompleteNew(b)
        /\ q.pc = "returned" /\ ~q.fault => q.result # StrResult(MsgCollectionUnreachable)
        /\ q.point_count \in {0, PointsCount(OldStore(b), AppCollectionName),
                              Cardinality(DistinctNames(menu_items))}
        /\ \A i \in 1..Len(q.raw_search_result) :
              q.raw_search_result[i].payload.item_name \in OldOrNewNames(b)
        /\ \A i \in 1..Len(q.result.list) : q.result.list[i].name \in OldOrNewNames(b)

(* C18: when two rebuilds of one collection over the same catalog have run *)
(* side by side and both completed, the collection holds exactly one point *)
(* per distinct name of the catalog.                                       *)
BothCompleted(a, b) ==
    /\ a # b /\ Target(a) = Target(b)
    /\ Done(a) /\ builder[a].exit = "completed"
    /\ Done(b) /\ builder[b].exit = "completed"
    /\ builder[a].catalog = builder[b].catalog

C18_ConcurrentRebuildsOnePointPerName ==
    \A a, b \in DOMAIN builder :
        BothCompleted(a, b) =>
            /\ PointsCount(collections, Target(a)) = Cardinality(DistinctNames(builder[a].catalog))
            /\ ItemNamesIn(collections, Target(a)) = DistinctNames(builder[a].catalog)

(* C19: no step of search_similar_item, whatever the query and whatever    *)
(* its outcome, changes the store: every collection keeps its              *)
(* configuration and its points, so queries leave later queries the index  *)
(* they found.                                                             *)
C19_Step == q' # q => collections' = collections /\ menu_items' = menu_items

C19_QueryReadOnly == [][C19_Step]_vars

C19_Witness ==
    /\ HitList /\ Len(q.result.list) = 1 /\ q.result.list[1].score = 100
    /\ q.calls = {"get_collection", "embed", "search"}
    /\ PointsCount(collections, AppCollectionName) = 2

====
